---- MODULE Spec2Model ----
(***************************************************************************)
(* A model of the vcl lexer (src/src/main.cpp): class Lexer over a         *)
(* std::ifstream, and the driver loop of main.                             *)
(*                                                                         *)
(* The file is a sequence of bytes (ASCII codes).  The std::ifstream is    *)
(* modelled by its get position and its eofbit / failbit, with the         *)
(* semantics the standard library gives to good, peek, get, tellg, seekg   *)
(* and get(buf, n, delim); the Lexer adds line_begin and row.  A Lexer     *)
(* state is the record                                                     *)
(*     [pos, eofbit, failbit, line_begin, row].                            *)
(* Sources are text: they hold no NUL byte.                                *)
(***************************************************************************)
EXTENDS Integers, Sequences, FiniteSets, TLC

VARIABLES
    argc,       \* main's argc (1: no path argument, 2: a path argument)
    file,       \* the bytes of the file at argv[1]
    exists,     \* whether the file at argv[1] can be opened
    lexer,      \* the Lexer: its ifstream (pos, eofbit, failbit), line_begin, row
    pc,         \* where the process is: "main", "scan", "exit0", "exit1", "aborted"
    ret,        \* the outcome of the latest next_token call
    out,        \* the tokens handed to output_token so far, in order
    calls,      \* the number of next_token calls made on the Lexer
    usage,      \* the number of usage messages main has printed
    twin        \* a second Lexer over the same file: its state, the outcome
                \* of its latest next_token call and the tokens it returned

vars == <<argc, file, exists, lexer, pc, ret, out, calls, usage, twin>>

-----------------------------------------------------------------------------
(* Bounds *)

\* longest enumerated source, in bytes
MaxLen == 4

\* most next_token calls made on one Lexer
MaxCalls == 8

-----------------------------------------------------------------------------
(* Bytes *)

\* what peek() returns when no byte is available
EOF == 0 - 1

NL == 10
QUOTE == 34
HASH == 35
NUL == 0

\* the bytes the enumerated sources are made of:
\* newline, space, '"', '#', '7', ';', '@', 'a'
Alphabet == {10, 32, 34, 35, 55, 59, 64, 97}

\* std::isspace in the "C" locale
isspace(c) == c \in 9..13 \/ c = 32

\* std::isalpha in the "C" locale
isalpha(c) == c \in 65..90 \/ c \in 97..122

\* std::isdigit
isdigit(c) == c \in 48..57

\* std::isalnum
isalnum(c) == isalpha(c) \/ isdigit(c)

\* a token_type_map with the kinds of '{' and '}' exchanged
token_type_map_swapped ==
    (40 :> "OPEN_PAREN") @@ (41 :> "CLOSE_PAREN") @@
    (123 :> "CLOSE_CURLY") @@ (125 :> "OPEN_CURLY") @@
    (59 :> "SEMICOLON")

\* token_type_map, as a function on its keys ( ) { } ;
token_type_map ==
    (40 :> "OPEN_PAREN") @@ (41 :> "CLOSE_PAREN") @@
    (123 :> "OPEN_CURLY") @@ (125 :> "CLOSE_CURLY") @@
    (59 :> "SEMICOLON")

is_in_token_map(key) == key \in DOMAIN token_type_map

-----------------------------------------------------------------------------
(* std::ifstream: the members the Lexer calls, on a Lexer state L *)

\* ios::good(): neither eofbit nor failbit is set
good(L) == ~L.eofbit /\ ~L.failbit

\* the byte peek() returns: the next byte, EOF when none is left or the
\* stream is not good
peek(L) == IF good(L) /\ L.pos < Len(file) THEN file[L.pos + 1] ELSE EOF

\* the stream after peek(): eofbit at end of file, failbit when not good
peek_state(L) ==
    IF ~good(L) THEN [L EXCEPT !.failbit = TRUE]
    ELSE IF L.pos >= Len(file) THEN [L EXCEPT !.eofbit = TRUE]
    ELSE L

\* the byte get() returns
get(L) == peek(L)

\* the stream after get(): one byte further, or eofbit and failbit at the end
get_state(L) ==
    IF ~good(L) THEN [L EXCEPT !.failbit = TRUE]
    ELSE IF L.pos >= Len(file) THEN [L EXCEPT !.eofbit = TRUE, !.failbit = TRUE]
    ELSE [L EXCEPT !.pos = @ + 1]

\* what tellg() returns: the get position, -1 when the stream is not good
tellg(L) == IF good(L) THEN L.pos ELSE 0 - 1

\* the stream after tellg(): its sentry sets failbit on a stream not good
tellg_state(L) == IF good(L) THEN L ELSE [L EXCEPT !.failbit = TRUE]

\* the stream after seekg(p): eofbit is cleared first; a failed stream does
\* not move
seekg(L, p) ==
    LET L1 == [L EXCEPT !.eofbit = FALSE]
    IN  IF L1.failbit \/ p < 0 THEN [L1 EXCEPT !.failbit = TRUE]
        ELSE [L1 EXCEPT !.pos = p]

\* the number of bytes get(buf, n, delim) stores reading from offset p with k
\* stored so far: it stops at n - 1 bytes, at end of file, or before delim
RECURSIVE stored(_, _, _, _)
stored(p, k, n, delim) ==
    IF k + 1 < n /\ p < Len(file) /\ file[p + 1] # delim
    THEN stored(p + 1, k + 1, n, delim)
    ELSE k

\* gcount of get(buf, n, delim)
getbuf_count(L, n, delim) == IF good(L) THEN stored(L.pos, 0, n, delim) ELSE 0

\* a get(buf, n, delim) that copies the bytes and leaves the get position
\* where it was
getbuf_state_stays(L, n, delim) ==
    IF ~good(L) THEN [L EXCEPT !.failbit = TRUE]
    ELSE LET k == getbuf_count(L, n, delim)
         IN  [L EXCEPT !.eofbit = (L.pos + k >= Len(file)),
                       !.failbit = (k = 0)]

\* the stream after get(buf, n, delim): failbit when no byte was stored
getbuf_state(L, n, delim) ==
    IF ~good(L) THEN [L EXCEPT !.failbit = TRUE]
    ELSE LET k == getbuf_count(L, n, delim)
         IN  [L EXCEPT !.pos = @ + k,
                       !.eofbit = (L.pos + k >= Len(file)),
                       !.failbit = (k = 0)]

\* the C string in buf after get(buf, n, delim): the bytes stored, terminated,
\* when n > 0; when n <= 0 nothing is written and buf keeps what the
\* allocation held (uninit)
getbuf_text(L, n, delim, uninit) ==
    IF n > 0
    THEN SubSeq(file, L.pos + 1, L.pos + getbuf_count(L, n, delim))
    ELSE uninit

\* std::atoi on a C string: optional white space, optional sign, then digits
RECURSIVE atoi_digits(_, _, _)
atoi_digits(s, i, acc) ==
    IF i <= Len(s) /\ isdigit(s[i])
    THEN atoi_digits(s, i + 1, acc * 10 + (s[i] - 48))
    ELSE acc

RECURSIVE atoi_from(_, _)
atoi_from(s, i) ==
    IF i <= Len(s) /\ isspace(s[i]) THEN atoi_from(s, i + 1)
    ELSE IF i <= Len(s) /\ s[i] = 45 THEN 0 - atoi_digits(s, i + 1, 0)
    ELSE IF i <= Len(s) /\ s[i] = 43 THEN atoi_digits(s, i + 1, 0)
    ELSE atoi_digits(s, i, 0)

atoi(s) == atoi_from(s, 1)

-----------------------------------------------------------------------------
(* class Lexer *)

\* chop_char without its "++row"
chop_char_keeps_row(L) ==
    IF good(L)
    THEN LET c == get(L)
             L1 == get_state(L)
         IN  IF c = NL
             THEN [tellg_state(L1) EXCEPT !.line_begin = tellg(L1) + 1]
             ELSE L1
    ELSE L

\* Lexer::chop_char
chop_char(L) ==
    IF good(L)
    THEN LET c == get(L)
             L1 == get_state(L)
         IN  IF c = NL
             THEN [tellg_state(L1) EXCEPT !.line_begin = tellg(L1) + 1,
                                          !.row = @ + 1]
             ELSE L1
    ELSE L

\* Lexer::trim_left
RECURSIVE trim_left(_)
trim_left(L) ==
    IF good(L) /\ isspace(peek(L))
    THEN trim_left(chop_char(peek_state(L)))
    ELSE IF good(L) THEN peek_state(L) ELSE L

\* Lexer::drop_line, the while loop
RECURSIVE drop_line_loop(_)
drop_line_loop(L) ==
    IF good(L) /\ peek(L) # NL
    THEN drop_line_loop(chop_char(peek_state(L)))
    ELSE IF good(L) THEN peek_state(L) ELSE L

\* Lexer::drop_line
drop_line(L) ==
    LET L1 == drop_line_loop(L)
    IN  IF good(L1) THEN chop_char(L1) ELSE L1

\* a comment skip that runs its body once, an if in place of the while
skip_comments_once(L) ==
    IF good(L) /\ peek(L) = HASH
    THEN trim_left(drop_line(peek_state(L)))
    ELSE IF good(L) THEN peek_state(L) ELSE L

\* Lexer::next_token, the comment loop
RECURSIVE skip_comments(_)
skip_comments(L) ==
    IF good(L) /\ peek(L) = HASH
    THEN skip_comments(trim_left(drop_line(peek_state(L))))
    ELSE IF good(L) THEN peek_state(L) ELSE L

\* std::optional<std::string> / std::optional<int>: has_value and value
NoText == [has |-> FALSE, value |-> <<>>]
SomeText(t) == [has |-> TRUE, value |-> t]
\* a number that is an engaged optional holding 0 where none was meant
NoNumber_engaged == [has |-> TRUE, value |-> 0]

NoNumber == [has |-> FALSE, value |-> 0]
SomeNumber(v) == [has |-> TRUE, value |-> v]

\* enum class TokenType
TokenType ==
    {"IDENTITY", "OPEN_PAREN", "CLOSE_PAREN", "OPEN_CURLY", "CLOSE_CURLY",
     "SEMICOLON", "NUMBER", "STRING", "RETURN"}

\* a Token whose kind is RETURN when it is the identifier 'return'
Token_keyword(type, text, number, location) ==
    [type |-> IF type = "IDENTITY" /\ text.value = <<114, 101, 116, 117, 114, 110>>
              THEN "RETURN" ELSE type,
     text |-> text, number |-> number,
     row |-> location.row, col |-> location.col]

\* struct Token, with its Location's row and col (file_path is the same for
\* every token of a Lexer)
Token(type, text, number, location) ==
    [type |-> type, text |-> text, number |-> number,
     row |-> location.row, col |-> location.col]

\* a placeholder where next_token produces no token
NoToken == Token("NONE", NoText, NoNumber, [row |-> 0, col |-> 0])

\* Lexer::next_token, identifier branch: while isalnum(peek) chop_char
RECURSIVE ident_loop(_)
ident_loop(L) ==
    IF good(L) /\ isalnum(peek(L))
    THEN ident_loop(chop_char(peek_state(L)))
    ELSE IF good(L) THEN peek_state(L) ELSE L

\* Lexer::next_token, number branch: while isdigit(peek) chop_char
RECURSIVE number_loop(_)
number_loop(L) ==
    IF good(L) /\ isdigit(peek(L))
    THEN number_loop(chop_char(peek_state(L)))
    ELSE IF good(L) THEN peek_state(L) ELSE L

\* Lexer::next_token, string branch: while peek is not '"' chop_char
RECURSIVE string_loop(_)
string_loop(L) ==
    IF good(L) /\ peek(L) # QUOTE
    THEN string_loop(chop_char(peek_state(L)))
    ELSE IF good(L) THEN peek_state(L) ELSE L

\* the newlines of a byte sequence
NewlinesIn(t) == Cardinality({i \in 1..Len(t) : t[i] = NL})

\* a re-read that counts the newlines of the run a second time
reread_counting(L, start, uninit) ==
    LET n == tellg(L) - start + 1
        L1 == seekg(tellg_state(L), start)
        L2 == IF n + 1 < 0 THEN L1 ELSE getbuf_state(L1, n, NUL)
        text == getbuf_text(L1, n, NUL, uninit)
    IN  [throws |-> n + 1 < 0,
         n |-> n,
         text |-> text,
         lexer |-> [L2 EXCEPT !.row = @ + NewlinesIn(text)]]

\* Lexer::next_token, the re-read of a run that began at offset start, from
\* the state L the run's loop ended in:
\*     n = tellg() - start + 1; seekg(start);
\*     buf = new char[n + 1]; get(buf, n, '\0')
\* new throws when n + 1 is negative, and nothing catches it.  uninit is
\* what the allocation holds where get writes nothing.
reread(L, start, uninit) ==
    LET n == tellg(L) - start + 1
        L1 == seekg(tellg_state(L), start)
    IN  [throws |-> n + 1 < 0,
         n |-> n,
         text |-> getbuf_text(L1, n, NUL, uninit),
         lexer |-> IF n + 1 < 0 THEN L1 ELSE getbuf_state(L1, n, NUL)]

\* the result of a next_token call: kind is "token" (an engaged optional),
\* "nullopt" (an empty one) or "abort" (the process ended in abort: a failed
\* assert or an uncaught exception); at is the get position where the
\* location was captured
Result(kind, why, token, at, L) ==
    [kind |-> kind, why |-> why, token |-> token, at |-> at, lexer |-> L]

\* an end of input that clears the stream's state bits before it returns
end_of_input_clears(L) ==
    Result("nullopt", "", NoToken, L.pos, [L EXCEPT !.eofbit = FALSE, !.failbit = FALSE])

\* Lexer::next_token, "if (!source.good()) return {}": the empty optional
end_of_input(L) == Result("nullopt", "", NoToken, L.pos, L)

\* an unrecognized byte that is dropped instead of ending the scan
not_implemented_skips(L, at) == Result("nullopt", "", NoToken, at, chop_char(L))

\* Lexer::next_token, "assert(false)": no branch took the byte at offset at;
\* the process aborts with the byte unread
not_implemented(L, at) == Result("abort", "assert", NoToken, at, L)

\* Lexer::next_token; uninit is the content of an allocation that is read
\* without having been written
next_token(L0, uninit) ==
    LET L1 == skip_comments(trim_left(L0))
    IN  IF ~good(L1) THEN end_of_input(L1)
        ELSE
        LET location == [row |-> L1.row, col |-> tellg(L1) - L1.line_begin]
            at == tellg(L1)
            c == peek(L1)
        IN  IF isalpha(c) THEN
                LET start == tellg(L1)
                    r == reread(ident_loop(L1), start, uninit)
                IN  IF r.throws
                    THEN Result("abort", "bad_alloc", NoToken, at, r.lexer)
                    ELSE Result("token", "",
                                Token("IDENTITY", SomeText(r.text), NoNumber, location),
                                at, r.lexer)
            ELSE IF is_in_token_map(c) THEN
                Result("token", "",
                       Token(token_type_map[c], NoText, NoNumber, location),
                       at, chop_char(L1))
            ELSE IF isdigit(c) THEN
                LET start == tellg(L1)
                    r == reread(number_loop(L1), start, uninit)
                IN  IF r.throws
                    THEN Result("abort", "bad_alloc", NoToken, at, r.lexer)
                    ELSE Result("token", "",
                                Token("NUMBER", NoText, SomeNumber(atoi(r.text)), location),
                                at, r.lexer)
            ELSE IF c = QUOTE THEN
                LET L2 == chop_char(L1)
                    start == tellg(L2)
                    r == reread(string_loop(L2), start, uninit)
                IN  IF r.throws
                    THEN Result("abort", "bad_alloc", NoToken, at, r.lexer)
                    ELSE Result("token", "",
                                Token("STRING", SomeText(r.text), NoNumber, location),
                                at, chop_char(r.lexer))
            ELSE not_implemented(L1, at)

\* Lexer::good
Lexer_good(L) == good(L)

\* Lexer::Lexer: line_begin and row are 0; open sets failbit when the file
\* cannot be opened
Lexer_new(opened) ==
    [pos |-> 0, eofbit |-> FALSE, failbit |-> ~opened, line_begin |-> 0, row |-> 0]

-----------------------------------------------------------------------------
(* Sources *)

\* the byte sequences of length at most n over Alphabet
RECURSIVE SeqsUpTo(_)
SeqsUpTo(n) ==
    IF n = 0 THEN {<<>>}
    ELSE LET shorter == SeqsUpTo(n - 1)
         IN  shorter \cup {Append(s, b) : s \in {t \in shorter : Len(t) = n - 1}, b \in Alphabet}

\* '# comment' newline 'x;'
SrcComment == <<35, 32, 99, 111, 109, 109, 101, 110, 116, 10, 120, 59>>
\* three spaces, two newlines, two spaces, 'foo'
SrcWhitespace == <<32, 32, 32, 10, 10, 32, 32, 102, 111, 111>>
\* '"hello world"'
SrcHello == <<34, 104, 101, 108, 108, 111, 32, 119, 111, 114, 108, 100, 34>>
\* '42'
Src42 == <<52, 50>>
\* '007'
Src007 == <<48, 48, 55>>
\* '"abc'
SrcUnterminated == <<34, 97, 98, 99>>
\* '(){};'
SrcPunct == <<40, 41, 123, 125, 59>>

\* 'return;'
SrcReturn == <<114, 101, 116, 117, 114, 110, 59>>

\* '1a'
Src1a == <<49, 97>>

\* 'a1b2;'
SrcA1b2 == <<97, 49, 98, 50, 59>>

\* 'x "a', newline, 'b" y;#c', two newlines, ' z 1', newline
SrcMixed == <<120, 32, 34, 97, 10, 98, 34, 32, 121, 59, 35, 99, 10, 10, 32, 122, 32, 49, 10>>

\* the sources scanned: every short one, and the ones the properties name
Sources ==
    SeqsUpTo(MaxLen) \cup
    {SrcComment, SrcWhitespace, SrcHello, Src42, Src007, SrcUnterminated, SrcPunct,
     SrcMixed, SrcReturn, Src1a, SrcA1b2}

\* what an allocation that was never written may hold, as a C string:
\* '', '?' and '99'
Uninit == {<<>>, <<63>>, <<57, 57>>}

-----------------------------------------------------------------------------
(* main *)

NoResult == Result("none", "", NoToken, 0, Lexer_new(FALSE))

\* the second Lexer before it is constructed
NoTwin == [lexer |-> Lexer_new(FALSE), ret |-> NoResult, out |-> <<>>]

Init ==
    /\ argc \in {1, 2}
    /\ exists \in BOOLEAN
    /\ file \in Sources
    /\ (argc = 1 => exists = FALSE)
    /\ (~exists => file = <<>>)
    /\ lexer = Lexer_new(FALSE)
    /\ pc = "main"
    /\ ret = NoResult
    /\ out = <<>>
    /\ calls = 0
    /\ usage = 0
    /\ twin = NoTwin

\* main with argc < 2: the usage message, return 1
Main_NoArgument ==
    /\ pc = "main"
    /\ argc < 2
    /\ usage' = usage + 1
    /\ pc' = "exit1"
    /\ UNCHANGED <<argc, file, exists, lexer, ret, out, calls, twin>>

\* a main that constructs the Lexer and scans without asking lexer.good()
Main_Open_unchecked ==
    /\ pc = "main"
    /\ argc >= 2
    /\ lexer' = Lexer_new(exists)
    /\ pc' = "scan"
    /\ UNCHANGED <<argc, file, exists, ret, out, calls, usage, twin>>

\* main: Lexer lexer = Lexer(argv[1]); if (!lexer.good()) usage, return 1
Main_Open ==
    /\ pc = "main"
    /\ argc >= 2
    /\ lexer' = Lexer_new(exists)
    /\ pc' = IF Lexer_good(Lexer_new(exists)) THEN "scan" ELSE "exit1"
    /\ usage' = IF Lexer_good(Lexer_new(exists)) THEN usage ELSE usage + 1
    /\ UNCHANGED <<argc, file, exists, ret, out, calls, twin>>

\* one next_token call on the Lexer and what the loop of main does with its
\* result: output_token for a token; the process is gone after an abort
Main_NextToken ==
    /\ pc = "scan"
    /\ calls < MaxCalls
    /\ \E uninit \in Uninit :
        LET r == next_token(lexer, uninit)
        IN  /\ ret' = r
            /\ lexer' = r.lexer
            /\ out' = IF r.kind = "token" THEN Append(out, r.token) ELSE out
            /\ pc' = IF r.kind = "abort" THEN "aborted" ELSE "scan"
    /\ calls' = calls + 1
    /\ UNCHANGED <<argc, file, exists, usage, twin>>

\* main: the loop ends on an empty optional, return 0
Main_Return ==
    /\ pc = "scan"
    /\ ret.kind = "nullopt"
    /\ pc' = "exit0"
    /\ UNCHANGED <<argc, file, exists, lexer, ret, out, calls, usage, twin>>

Next ==
    \/ Main_NoArgument
    \/ Main_Open
    \/ Main_NextToken
    \/ Main_Return

Spec == Init /\ [][Next]_vars

\* main's own loop: next_token is called again only after a token
Main_Loop ==
    /\ ret.kind # "nullopt"
    /\ Main_NextToken

MainNext ==
    \/ Main_NoArgument
    \/ Main_Open
    \/ Main_Loop
    \/ Main_Return

\* two Lexers are constructed on the same path
Twin_Open ==
    /\ pc = "main"
    /\ argc >= 2
    /\ lexer' = Lexer_new(exists)
    /\ twin' = [twin EXCEPT !.lexer = Lexer_new(exists)]
    /\ pc' = IF Lexer_good(Lexer_new(exists)) THEN "scan" ELSE "exit1"
    /\ UNCHANGED <<argc, file, exists, ret, out, calls, usage>>

\* one next_token call on each of the two Lexers; what an allocation holds
\* is chosen for each call on its own
Twin_NextToken ==
    /\ pc = "scan"
    /\ calls < MaxCalls
    /\ \E u1 \in Uninit, u2 \in Uninit :
        LET r1 == next_token(lexer, u1)
            r2 == next_token(twin.lexer, u2)
        IN  /\ ret' = r1
            /\ lexer' = r1.lexer
            /\ out' = IF r1.kind = "token" THEN Append(out, r1.token) ELSE out
            /\ twin' = [lexer |-> r2.lexer,
                        ret |-> r2,
                        out |-> IF r2.kind = "token"
                                THEN Append(twin.out, r2.token) ELSE twin.out]
            /\ pc' = IF r1.kind = "abort" \/ r2.kind = "abort" THEN "aborted" ELSE "scan"
    /\ calls' = calls + 1
    /\ UNCHANGED <<argc, file, exists, usage>>

TwinNext ==
    \/ Twin_Open
    \/ Twin_NextToken

\* two scans of one file, call by call
TwinSpec == Init /\ [][TwinNext]_vars

\* main as it runs: a sequential process takes its next step as long as it
\* has one
MainSpec == Init /\ [][MainNext]_vars /\ WF_vars(MainNext)

-----------------------------------------------------------------------------
(* What the properties speak of, read off the file alone *)

\* the number of newline bytes before offset p
NewlinesBefore(p) == Cardinality({i \in 1..p : file[i] = NL})

\* the offset of the first byte of the line that holds offset p: one past
\* the latest newline before p, 0 when there is none
LineStart(p) ==
    LET nls == {i \in 1..p : file[i] = NL}
    IN  IF nls = {} THEN 0 ELSE CHOOSE i \in nls : \A j \in nls : j <= i

\* the latest call returned a token
Returned == ret.kind = "token"

\* the latest call returned a token of this type
ReturnedType(type) == Returned /\ ret.token.type = type

-----------------------------------------------------------------------------
(* C1 *)

\* C1: location monotonicity.  For any two consecutive tokens A then B
\* returned by one Lexer, B.row >= A.row, and B.col > A.col when the rows
\* are equal.
C1_LocationMonotonic ==
    \A i \in 1..(Len(out) - 1) :
        /\ out[i + 1].row >= out[i].row
        /\ (out[i + 1].row = out[i].row => out[i + 1].col > out[i].col)

\* a string literal that spans a newline, followed by a token on a later
\* row, followed by a token on that same row
C1_Witness ==
    \E i \in 1..(Len(out) - 2) :
        /\ out[i].type = "STRING"
        /\ out[i + 1].row > out[i].row
        /\ out[i + 2].row = out[i + 1].row
        /\ out[i + 2].col > out[i + 1].col

-----------------------------------------------------------------------------
(* C2 *)

\* C2: column invariant.  The column of every returned token is the offset
\* of its first byte minus the offset of the first byte of its line (one
\* past the latest newline before it, 0 when there is none).
C2_ColumnInvariant ==
    Returned => ret.token.col = ret.at - LineStart(ret.at)

-----------------------------------------------------------------------------
(* C3 *)

-----------------------------------------------------------------------------
(* C4 *)

\* C4: exhaustion is sticky.  Once a call has returned the empty optional,
\* every later call returns it too, nothing aborts, and the cursor,
\* line_begin and row stay as they are.
C4_ExhaustionSticky ==
    [][ret.kind = "nullopt" =>
           /\ ret'.kind = "nullopt"
           /\ pc' # "aborted"
           /\ lexer'.pos = lexer.pos
           /\ lexer'.line_begin = lexer.line_begin
           /\ lexer'.row = lexer.row]_vars

\* the end of the file was reached after a token, and a second call was
\* made after the one that first returned the empty optional
C4_Witness ==
    /\ ret.kind = "nullopt"
    /\ Len(out) >= 1
    /\ calls >= Len(out) + 2
    /\ lexer.eofbit

-----------------------------------------------------------------------------
(* C5 *)

\* a '"' follows the opening quote at offset p
Terminated(p) == \E j \in (p + 2)..Len(file) : file[j] = QUOTE

\* C5: an unterminated string fails.  A call that starts a string literal
\* with no closing quote before the end of input returns no String token.
C5_UnterminatedStringFails ==
    ReturnedType("STRING") => Terminated(ret.at)

-----------------------------------------------------------------------------
(* C6 *)

\* the offset just past the first newline at or after offset p, the length
\* of the file when there is none
LineEnd(p) ==
    LET nls == {i \in (p + 1)..Len(file) : file[i] = NL}
    IN  IF nls = {} THEN Len(file) ELSE CHOOSE i \in nls : \A j \in nls : i <= j

\* the offset of the first byte at or after offset p that is neither white
\* space nor part of a '#' comment, the length of the file when there is none
RECURSIVE SkipTo(_)
SkipTo(p) ==
    IF p >= Len(file) THEN Len(file)
    ELSE IF isspace(file[p + 1]) THEN SkipTo(p + 1)
    ELSE IF file[p + 1] = HASH THEN SkipTo(LineEnd(p))
    ELSE p

\* a byte no branch of next_token takes
Unrecognized(b) ==
    ~isalpha(b) /\ ~isdigit(b) /\ ~is_in_token_map(b) /\ b # QUOTE

\* past the white space and comments at the cursor lies an unrecognized byte
BadByteAhead ==
    /\ SkipTo(lexer.pos) < Len(file)
    /\ Unrecognized(file[SkipTo(lexer.pos) + 1])

\* C6: an unrecognized byte is fatal and terminal.  A call made with an
\* unrecognized byte next after white space and comments returns no token
\* and aborts the process with the cursor on that byte; every earlier call
\* had returned a token, all of them handed on already; and nothing happens
\* after the abort.
C6_UnrecognizedFatal ==
    [][/\ (calls' = calls + 1 /\ BadByteAhead) =>
              /\ ret'.kind = "abort"
              /\ ret'.why = "assert"
              /\ pc' = "aborted"
              /\ lexer'.pos = SkipTo(lexer.pos)
              /\ out' = out
              /\ Len(out) = calls
       /\ pc # "aborted"]_vars

\* the scan aborted on an unrecognized byte that followed a token and a
\* comment line
C6_Witness ==
    /\ pc = "aborted"
    /\ ret.why = "assert"
    /\ Len(out) >= 1
    /\ lexer.row >= 1
    /\ \E i \in 1..lexer.pos : file[i] = HASH

-----------------------------------------------------------------------------
(* C7 *)

\* C7: comment transparency.  Scanning '# comment', newline, 'x;' yields
\* Identifier "x" at row 1 column 0, then Semicolon, then the empty optional.
C7_CommentTransparency ==
    file = SrcComment =>
        /\ calls >= 1 =>
              /\ Len(out) >= 1
              /\ out[1] = Token("IDENTITY", SomeText(<<120>>), NoNumber,
                                [row |-> 1, col |-> 0])
        /\ calls >= 2 => (Len(out) >= 2 /\ out[2].type = "SEMICOLON")
        /\ calls >= 3 => (Len(out) = 2 /\ ret.kind = "nullopt")

-----------------------------------------------------------------------------
(* C8 *)

\* C8: white space transparency.  Scanning three spaces, two newlines, two
\* spaces and 'foo' yields Identifier "foo" at row 2 column 2, then the
\* empty optional.
C8_WhitespaceTransparency ==
    file = SrcWhitespace =>
        /\ calls >= 1 =>
              /\ Len(out) >= 1
              /\ out[1] = Token("IDENTITY", SomeText(<<102, 111, 111>>), NoNumber,
                                [row |-> 2, col |-> 2])
        /\ calls >= 2 => (Len(out) = 1 /\ ret.kind = "nullopt")

-----------------------------------------------------------------------------
(* C9 *)

\* the index in the file of the first '"' after the opening quote at offset p
ClosingQuote(p) ==
    CHOOSE j \in (p + 2)..Len(file) :
        /\ file[j] = QUOTE
        /\ \A k \in (p + 2)..(j - 1) : file[k] # QUOTE

\* C9: string verbatim capture.  For a terminated string literal the call
\* returns a String token whose text is the bytes strictly between the two
\* quotes, located at the opening quote (its row; the column's arithmetic is
\* C2's), and leaves the cursor just past the closing quote; '"hello world"'
\* yields String "hello world", then the empty optional.
C9_StringVerbatim ==
    /\ (ReturnedType("STRING") /\ Terminated(ret.at)) =>
          /\ file[ret.at + 1] = QUOTE
          /\ ret.token.row = NewlinesBefore(ret.at)
          /\ ret.token.text = SomeText(SubSeq(file, ret.at + 2, ClosingQuote(ret.at) - 1))
          /\ ret.token.number = NoNumber
          /\ lexer.pos = ClosingQuote(ret.at)
    /\ file = SrcHello =>
          /\ calls >= 1 =>
                out = <<Token("STRING",
                              SomeText(<<104, 101, 108, 108, 111, 32, 119, 111, 114, 108, 100>>),
                              NoNumber, [row |-> 0, col |-> 0])>>
          /\ calls >= 2 => ret.kind = "nullopt"

-----------------------------------------------------------------------------
(* C10 *)

\* the base-10 value of the maximal run of digits at index i of the file,
\* continuing from acc
RECURSIVE DecimalValue(_, _)
DecimalValue(i, acc) ==
    IF i <= Len(file) /\ isdigit(file[i])
    THEN DecimalValue(i + 1, acc * 10 + (file[i] - 48))
    ELSE acc

\* C10: number parse.  A maximal run of digits yields a Number token whose
\* value is the base-10 value of the run, also when the run ends the file:
\* '42' yields Number 42 and '007' yields Number 7, each followed by the
\* empty optional.
C10_NumberParse ==
    /\ ReturnedType("NUMBER") =>
          ret.token.number = SomeNumber(DecimalValue(ret.at + 1, 0))
    /\ \A e \in {<<Src42, 42>>, <<Src007, 7>>} :
          file = e[1] =>
              /\ calls >= 1 =>
                    out = <<Token("NUMBER", NoText, SomeNumber(e[2]),
                                  [row |-> 0, col |-> 0])>>
              /\ calls >= 2 => ret.kind = "nullopt"

-----------------------------------------------------------------------------
(* C11 *)

\* the kind the punctuation byte b stands for
PunctKind(b) ==
    CASE b = 40 -> "OPEN_PAREN"
      [] b = 41 -> "CLOSE_PAREN"
      [] b = 123 -> "OPEN_CURLY"
      [] b = 125 -> "CLOSE_CURLY"
      [] b = 59 -> "SEMICOLON"

PunctBytes == {40, 41, 123, 125, 59}

PunctKinds == {"OPEN_PAREN", "CLOSE_PAREN", "OPEN_CURLY", "CLOSE_CURLY", "SEMICOLON"}

\* the punctuation token of byte b at row 0, column col
PunctAt(b, col) == Token(PunctKind(b), NoText, NoNumber, [row |-> 0, col |-> col])

\* C11: punctuation mapping.  A token that starts at one of ( ) { } ; has
\* that byte's kind and no payload, and its call consumed exactly that byte;
\* no other token has a punctuation kind.  '(){};' yields the five kinds in
\* order at row 0, columns 0 to 4, then the empty optional.
C11_PunctuationMapping ==
    /\ Returned =>
          IF file[ret.at + 1] \in PunctBytes
          THEN /\ ret.token.type = PunctKind(file[ret.at + 1])
               /\ ret.token.text = NoText
               /\ ret.token.number = NoNumber
               /\ lexer.pos = ret.at + 1
          ELSE ret.token.type \notin PunctKinds
    /\ file = SrcPunct =>
          /\ \A k \in 1..5 : calls >= k =>
                (Len(out) >= k /\ out[k] = PunctAt(SrcPunct[k], k - 1))
          /\ calls >= 6 => (Len(out) = 5 /\ ret.kind = "nullopt")

\* '(){};' scanned to its end: five tokens and the empty optional
C11_Witness ==
    /\ file = SrcPunct
    /\ calls = 6
    /\ Len(out) = 5
    /\ ret.kind = "nullopt"

-----------------------------------------------------------------------------
(* C12 *)

\* the payload a token of this kind carries
PayloadFits(t) ==
    CASE t.type \in {"IDENTITY", "STRING"} -> t.text.has /\ ~t.number.has
      [] t.type = "NUMBER" -> t.number.has /\ ~t.text.has
      [] t.type \in PunctKinds -> ~t.text.has /\ ~t.number.has
      [] OTHER -> FALSE

\* C12: payload exclusivity.  Every returned token has text and no number
\* when it is an Identifier or a String, a number and no text when it is a
\* Number, and neither when it is punctuation.
C12_PayloadExclusive ==
    /\ \A i \in 1..Len(out) : PayloadFits(out[i])
    /\ Returned => PayloadFits(ret.token)

\* an Identifier, a String, a Number and a punctuation token were returned
\* by one Lexer
C12_Witness ==
    /\ \E i \in 1..Len(out) : out[i].type = "IDENTITY"
    /\ \E i \in 1..Len(out) : out[i].type = "STRING"
    /\ \E i \in 1..Len(out) : out[i].type = "NUMBER"
    /\ \E i \in 1..Len(out) : out[i].type \in PunctKinds

-----------------------------------------------------------------------------
(* C13 *)

\* C13: the kind RETURN is unreachable.  Every returned token has a kind of
\* TokenType other than RETURN, the identifier 'return' included.
C13_ReturnUnreachable ==
    /\ \A i \in 1..Len(out) : out[i].type \in TokenType \ {"RETURN"}
    /\ Returned => ret.token.type \in TokenType \ {"RETURN"}

\* the identifier 'return' was returned, as an Identifier
C13_Witness ==
    /\ Returned
    /\ ret.token.text = SomeText(<<114, 101, 116, 117, 114, 110>>)
    /\ file[ret.at + 1] = 114

-----------------------------------------------------------------------------
(* C14 *)

\* the process has ended: main returned, or the process aborted
Halted == pc \in {"exit0", "exit1", "aborted"}

\* C14: termination.  main makes at most one next_token call per byte of the
\* file and one more, each call ending, so the tokens are at most as many as
\* the bytes; and a scan that is still going (no empty optional, no abort)
\* is never cut short by MaxCalls, so every run ends in return 0, return 1
\* or an abort.
C14_Terminates ==
    /\ calls <= Len(file) + 1
    /\ Len(out) <= Len(file)
    /\ (pc = "scan" /\ ret.kind # "nullopt") => calls < MaxCalls

\* main returned 0 after two tokens or more, the last call having run its
\* loops into the end of the file
C14_Witness ==
    /\ pc = "exit0"
    /\ Len(out) >= 2
    /\ calls = Len(out) + 1
    /\ lexer.eofbit

-----------------------------------------------------------------------------
(* C15 *)

\* C15: idempotent re-scan.  Two Lexers over the same file return the same
\* outcomes call by call: the same kind of outcome, the same token (kind,
\* payload, location), and so the same sequence of tokens.
C15_RescanIdentical ==
    /\ twin.ret.kind = ret.kind
    /\ twin.ret.why = ret.why
    /\ twin.ret.token = ret.token
    /\ twin.out = out

-----------------------------------------------------------------------------
(* C16 *)

\* C16: an open failure is reported before any scan.  main ends in return 1
\* exactly when no path argument was given or the file could not be opened,
\* after one usage message, no next_token call and no token printed; only
\* with the file opened does it call next_token; every call that returns a
\* token prints that token once, after the ones printed before, and no
\* other step prints; return 0 comes only after the empty optional.
C16_OpenFailureFirst ==
    /\ [](/\ pc # "main" => (pc = "exit1" <=> (argc < 2 \/ ~exists))
          /\ pc = "exit1" => (usage = 1 /\ calls = 0 /\ out = <<>>)
          /\ (calls > 0 \/ out # <<>>) => (argc >= 2 /\ exists /\ usage = 0)
          /\ pc = "exit0" => (ret.kind = "nullopt" /\ Len(out) = calls - 1))
    /\ [][/\ calls' = calls + 1 =>
                out' = IF ret'.kind = "token" THEN Append(out, ret'.token) ELSE out
          /\ calls' = calls => out' = out]_vars

\* a path was given, the file could not be opened, and main returned 1
C16_Witness ==
    /\ argc = 2
    /\ ~exists
    /\ pc = "exit1"
    /\ usage = 1

-----------------------------------------------------------------------------
(* C17 *)

\* the offset just past the maximal run of letters and digits at offset p
RECURSIVE AlnumRunEnd(_)
AlnumRunEnd(p) ==
    IF p < Len(file) /\ isalnum(file[p + 1]) THEN AlnumRunEnd(p + 1) ELSE p

\* C17: identifier maximal munch.  A token that starts at a letter is an
\* Identifier whose text is the longest run of letters and digits from that
\* byte, followed by a byte that is not alphanumeric or by the end of
\* input; an Identifier never starts at a digit.  'a1b2;' starts with the
\* Identifier 'a1b2', and '1a' yields Number 1 then Identifier 'a'.
C17_IdentifierMaximalMunch ==
    /\ (Returned /\ isalpha(file[ret.at + 1])) =>
          /\ ret.token.type = "IDENTITY"
          /\ ret.token.text = SomeText(SubSeq(file, ret.at + 1, AlnumRunEnd(ret.at)))
          /\ ret.token.number = NoNumber
    /\ ReturnedType("IDENTITY") => isalpha(file[ret.at + 1])
    /\ (file = SrcA1b2 /\ calls >= 1) =>
          out[1] = Token("IDENTITY", SomeText(<<97, 49, 98, 50>>), NoNumber,
                         [row |-> 0, col |-> 0])
    /\ file = Src1a =>
          /\ calls >= 1 =>
                out[1] = Token("NUMBER", NoText, SomeNumber(1), [row |-> 0, col |-> 0])
          /\ calls >= 2 =>
                /\ Len(out) >= 2
                /\ out[2] = Token("IDENTITY", SomeText(<<97>>), NoNumber,
                                  [row |-> 0, col |-> 1])

-----------------------------------------------------------------------------
(* C18 *)

\* '"";'
SrcEmptyString == <<34, 34, 59>>

\* C18: an empty string literal does not stop the scan.  A String token
\* whose opening quote is directly followed by a quote has empty text, its
\* call leaves the cursor past the closing quote and the stream usable, and
\* two quotes followed by ';' yield String "", then Semicolon, then the
\* empty optional.
C18_EmptyStringContinues ==
    /\ (ReturnedType("STRING") /\ ret.at + 2 <= Len(file) /\ file[ret.at + 2] = QUOTE) =>
          /\ ret.token.text = SomeText(<<>>)
          /\ lexer.pos = ret.at + 2
          /\ Lexer_good(lexer)
    /\ file = SrcEmptyString =>
          /\ calls >= 1 =>
                out[1] = Token("STRING", SomeText(<<>>), NoNumber, [row |-> 0, col |-> 0])
          /\ calls >= 2 =>
                /\ Len(out) >= 2
                /\ out[2] = Token("SEMICOLON", NoText, NoNumber, [row |-> 0, col |-> 2])
          /\ calls >= 3 => (Len(out) = 2 /\ ret.kind = "nullopt")

-----------------------------------------------------------------------------
(* C19 *)

\* the latest call got as far as capturing a location
Captured == ret.kind \in {"token", "abort"}

\* C19: skip postcondition.  The byte at a captured location is neither
\* white space nor '#'.  A call on a good stream captures its location at
\* the first byte at or after the cursor that is neither white space nor
\* part of a comment, whatever the interleaving of white space and comment
\* lines before it; when there is no such byte, a comment that runs to the
\* end of the file included, the call returns the empty optional.
C19_SkipPostcondition ==
    /\ [](Captured =>
             /\ ret.at < Len(file)
             /\ ~isspace(file[ret.at + 1])
             /\ file[ret.at + 1] # HASH)
    /\ [][(calls' = calls + 1 /\ good(lexer)) =>
             IF SkipTo(lexer.pos) < Len(file)
             THEN ret'.kind \in {"token", "abort"} /\ ret'.at = SkipTo(lexer.pos)
             ELSE ret'.kind = "nullopt"]_vars

\* a token returned after a comment that directly follows a ';'
C19_Witness ==
    /\ Returned
    /\ \E p \in 1..(ret.at - 1) :
          /\ file[p] = 59
          /\ file[p + 1] = HASH
          /\ SkipTo(p) = ret.at

-----------------------------------------------------------------------------
(* C20 *)

\* the offset just past the maximal run of digits at offset p
RECURSIVE DigitRunEnd(_)
DigitRunEnd(p) ==
    IF p < Len(file) /\ isdigit(file[p + 1]) THEN DigitRunEnd(p + 1) ELSE p

\* the offset just past the token that starts at offset p
TokenEnd(p) ==
    IF isalpha(file[p + 1]) THEN AlnumRunEnd(p)
    ELSE IF isdigit(file[p + 1]) THEN DigitRunEnd(p)
    ELSE IF file[p + 1] = QUOTE /\ Terminated(p) THEN ClosingQuote(p)
    ELSE p + 1

\* C20: cursor progress and partition.  Every call that returns a token
\* leaves the cursor past the captured location, exactly one past the
\* token's last byte: start plus run length for Identifier and Number,
\* start plus one for punctuation, one past the closing quote for a
\* terminated String.  The next location captured is at or after that
\* cursor, so no byte belongs to two tokens.
C20_CursorPartition ==
    /\ []((Returned /\ (file[ret.at + 1] = QUOTE => Terminated(ret.at))) =>
             /\ lexer.pos > ret.at
             /\ lexer.pos = TokenEnd(ret.at))
    /\ [][(calls' = calls + 1 /\ Returned /\ ret'.kind \in {"token", "abort"}) =>
             ret'.at >= lexer.pos]_vars

====
